---- MODULE Spec2Model ----
(***************************************************************************)
(* A model of the tf-idf inverted index of BITS-IR-PROJECT:                *)
(*   construct_index.py  index construction (postings, document frequency, *)
(*                       normalization factors, champion lists)            *)
(*   helper_module.py    createChampionList, printTopKScores               *)
(*   test_queries.py     query vector, query expansion, scoring, merging   *)
(*                                                                         *)
(* Representation.                                                         *)
(*  - A Python dict whose iteration order can be observed (posting lists,  *)
(*    query vectors, score maps) is a sequence of <<key, value>> pairs     *)
(*    with distinct keys, in insertion order.                              *)
(*  - A text is the list of words processWords returns for it.             *)
(*  - Real numbers are fixed point: query weights and similarities are in  *)
(*    tenths, logarithms and tf weights in hundredths.  log10 of an        *)
(*    integer is the sum of the rounded logs of its prime factors.         *)
(***************************************************************************)
EXTENDS Integers, Sequences, FiniteSets, TLC

\* ------------------------------------------------------------------ bounds
\* Number of <doc> elements the corpus loop processes.
MaxCorpus == 3
\* Number of words in a query.
MaxQueryLen == 2
\* Largest cap / K handed to the heap selections.
MaxCap == 3
\* Largest score and largest term frequency of the hand-built maps.
MaxVal == 2

\* --------------------------------------------------------------- alphabets
QueryWords == {"a", "b", "c"}
DocIds == {"d1", "d2", "d3"}
\* Document bodies and titles, as processWords returns them.
DocTexts == { <<"a">>, <<"b", "b">>, <<"a", "b", "a">>, <<>> }
DocTitles == { <<"a">>, <<"b">> }

\* ----------------------------------------------------- ordered dictionaries
Keys(d) == { d[i][1] : i \in DOMAIN d }

HasKey(d, k) == \E i \in DOMAIN d : d[i][1] = k

\* dict.get(k, default)
Get(d, k, default) ==
    IF HasKey(d, k) THEN d[CHOOSE i \in DOMAIN d : d[i][1] = k][2] ELSE default

\* d[k] = v : an existing key keeps its position, a new key goes last.
Put(d, k, v) ==
    IF HasKey(d, k)
    THEN [i \in DOMAIN d |-> IF d[i][1] = k THEN <<k, v>> ELSE d[i]]
    ELSE Append(d, <<k, v>>)

\* The mapping a dict denotes (Python's == on dicts ignores the order).
AsMap(d) == [k \in Keys(d) |-> Get(d, k, 0)]

IsDict(d) == \A i, j \in DOMAIN d : d[i][1] = d[j][1] => i = j

\* All ordered dicts with keys in K and values in V.
RECURSIVE DictsOver(_, _)
DictsOver(K, V) ==
    {<<>>} \cup
    UNION { { <<<<k, v>>>> \o rest : rest \in DictsOver(K \ {k}, V) }
            : <<k, v>> \in K \X V }

\* -------------------------------------------------------------- arithmetic
\* log10 of a prime, in hundredths.
PrimeLog(p) ==
    CASE p = 2 -> 30 [] p = 3 -> 48 [] p = 5 -> 70 [] p = 7 -> 85
      [] p = 11 -> 104 [] p = 13 -> 111 [] p = 17 -> 123 [] p = 19 -> 128
      [] p = 23 -> 136 [] p = 29 -> 146 [] p = 31 -> 149 [] p = 37 -> 157
      [] p = 41 -> 161 [] p = 43 -> 163 [] p = 47 -> 167 [] OTHER -> 170

\* math.log(n, 10) for an integer n >= 1, in hundredths.
RECURSIVE Log10(_)
Log10(n) ==
    IF n <= 1 THEN 0
    ELSE LET p == CHOOSE q \in 2..n :
                     /\ n % q = 0
                     /\ \A r \in 2..(q - 1) : n % r # 0
         IN  PrimeLog(p) + Log10(n \div p)

\* x ** 0.5 rounded down.
RECURSIVE Sqrt(_)
Sqrt(x) ==
    IF x < 1 THEN 0
    ELSE LET c == 2 * Sqrt(x \div 4)
         IN  IF (c + 1) * (c + 1) > x THEN c ELSE c + 1

\* 1 + math.log(tf, 10) for an integer count tf >= 1, in hundredths.
LogTf(tf) == 100 + Log10(tf)

\* -------------------------------------------------- construct_index.py
\* addDocToIndex / addTitleToIndex: word -> number of occurrences.
RECURSIVE CountWords(_, _)
CountWords(words, temp_index) ==
    IF words = <<>> THEN temp_index
    ELSE CountWords(Tail(words),
                    Put(temp_index, Head(words), Get(temp_index, Head(words), 0) + 1))

addDocToIndex(text) == CountWords(text, <<>>)

addTitleToIndex(title) == CountWords(title, <<>>)

\* main_index.get(word, [0, {}])
EntryOf(main_index, word) ==
    IF word \in DOMAIN main_index THEN main_index[word]
    ELSE [df |-> 0, postings |-> <<>>]

\* A slip of the loop body: the entry is created afresh instead of fetched.
MergeWordFresh(main_index, word, doc_id, tf) ==
    [w \in DOMAIN main_index \cup {word} |->
        IF w = word THEN [df |-> 1, postings |-> <<<<doc_id, tf>>>>]
        ELSE main_index[w]]

\* The body of mergeDocToIndex's loop for one (word, tf) of the temporary index.
MergeWord(main_index, word, doc_id, tf) ==
    LET e == EntryOf(main_index, word)
    IN  [w \in DOMAIN main_index \cup {word} |->
            IF w = word
            THEN [df |-> e.df + 1, postings |-> Put(e.postings, doc_id, tf)]
            ELSE main_index[w]]

\* The loop of mergeDocToIndex over temp_index.items(): the index and the
\* running doc_norm_factor (in 1/10000).
RECURSIVE MergeItems(_, _, _, _)
MergeItems(main_index, doc_id, items, doc_norm_factor) ==
    IF items = <<>> THEN [index |-> main_index, norm |-> doc_norm_factor]
    ELSE LET word == Head(items)[1]
             tf   == Head(items)[2]
         IN  MergeItems(MergeWord(main_index, word, doc_id, tf), doc_id,
                        Tail(items),
                        doc_norm_factor + LogTf(tf) * LogTf(tf))

mergeDocToIndex(main_index, doc_info, doc_id, temp_index, isTitle) ==
    LET m == MergeItems(main_index, doc_id, temp_index, 0)
    IN  [index |-> m.index,
         info  |-> IF isTitle
                   THEN [doc_info EXCEPT ![doc_id].title_norm = Sqrt(m.norm)]
                   ELSE [doc_info EXCEPT ![doc_id].content_norm = Sqrt(m.norm)]]

\* The body of createIndexFromCorpus's loop for one <doc> element.
ProcessDoc(st, doc, zoned) ==
    LET info0 == [d \in DOMAIN st.doc_info \cup {doc.id} |->
                     IF d = doc.id
                     THEN [name |-> doc.title, content_norm |-> 0, title_norm |-> 0]
                     ELSE st.doc_info[d]]
        c == mergeDocToIndex(st.inverted_index, info0, doc.id,
                             addDocToIndex(doc.text), FALSE)
        t == mergeDocToIndex(st.title_index, c.info, doc.id,
                             addTitleToIndex(doc.title), TRUE)
    IN  IF zoned
        THEN [inverted_index |-> c.index, title_index |-> t.index, doc_info |-> t.info]
        ELSE [inverted_index |-> c.index, title_index |-> st.title_index,
              doc_info |-> c.info]

EmptyIndexState ==
    [inverted_index |-> <<>>, title_index |-> <<>>, doc_info |-> <<>>]

\* The corpus loop of createIndexFromCorpus over the list docs.
RECURSIVE ProcessCorpus(_, _, _)
ProcessCorpus(st, ds, zoned) ==
    IF ds = <<>> THEN st
    ELSE ProcessCorpus(ProcessDoc(st, Head(ds), zoned), Tail(ds), zoned)

\* ----------------------------------------------------- helper_module.py
\* Index of the first pair of a non-empty list whose value is the largest.
FirstMax(pairs) ==
    CHOOSE i \in DOMAIN pairs :
        /\ \A j \in DOMAIN pairs : pairs[j][2] <= pairs[i][2]
        /\ \A j \in 1..(i - 1) : pairs[j][2] < pairs[i][2]

\* Index of the first pair of a non-empty list whose value is the smallest.
FirstMin(pairs) ==
    CHOOSE i \in DOMAIN pairs :
        /\ \A j \in DOMAIN pairs : pairs[j][2] >= pairs[i][2]
        /\ \A j \in 1..(i - 1) : pairs[j][2] > pairs[i][2]

Without(pairs, i) ==
    [j \in 1..(Len(pairs) - 1) |-> IF j < i THEN pairs[j] ELSE pairs[j + 1]]

\* heapq.nsmallest in the place of heapq.nlargest.
RECURSIVE NSmallest(_, _)
NSmallest(n, pairs) ==
    IF n <= 0 \/ pairs = <<>> THEN <<>>
    ELSE LET i == FirstMin(pairs)
         IN  <<pairs[i]>> \o NSmallest(n - 1, Without(pairs, i))

\* heapq.nlargest(n, pairs, key = value): what sorted(pairs, key = value,
\* reverse = True)[:n] returns; equal values keep their order, n <= 0 gives [].
RECURSIVE NLargest(_, _)
NLargest(n, pairs) ==
    IF n <= 0 \/ pairs = <<>> THEN <<>>
    ELSE LET i == FirstMax(pairs)
         IN  <<pairs[i]>> \o NLargest(n - 1, Without(pairs, i))

\* The loop of createChampionList filling champion_list from sorted_tup.
RECURSIVE FillDict(_, _)
FillDict(d, pairs) ==
    IF pairs = <<>> THEN d
    ELSE FillDict(Put(d, Head(pairs)[1], Head(pairs)[2]), Tail(pairs))

\* An off-by-one in the cap.
createChampionListShort(pl, n) == FillDict(<<>>, NLargest(n - 1, pl))

\* The lowest frequencies kept instead of the highest.
createChampionListLowest(pl, n) == FillDict(<<>>, NSmallest(n, pl))

createChampionList(pl, n) == FillDict(<<>>, NLargest(n, pl))

\* The keys of the smallest scores.
TopKDocsSmallest(sc, k) ==
    LET top == NSmallest(k, sc) IN [i \in DOMAIN top |-> top[i][1]]

\* printTopKScores: heapq.nlargest(K, scores, key = scores.get), the list of keys.
TopKDocs(sc, k) ==
    LET top == NLargest(k, sc) IN [i \in DOMAIN top |-> top[i][1]]

\* printTopKScores: the rows printed, or the "No matching results found" line.
PrintedRows(sc, k) ==
    LET top == TopKDocs(sc, k)
    IN  IF Len(top) > 0
        THEN [kind |-> "rows",
              rows |-> [i \in DOMAIN top |-> <<top[i], Get(sc, top[i], 0)>>]]
        ELSE [kind |-> "none", rows |-> <<>>]

\* ------------------------------------------------------ test_queries.py
\* Program constants.
max_exp_no == 7
champion_max_docs == 100
top_K == 10
\* title_weight = 0.1, in tenths.
session_title_weight == 1

\* constructQueryVector: word -> number of occurrences, as a weight in tenths.
constructQueryVector(q) ==
    LET counts == CountWords(q, <<>>)
    IN  [i \in DOMAIN counts |-> <<counts[i][1], 10 * counts[i][2]>>]

\* The similarities of a keyed-vector model are symmetric: one per pair of words.
SimOf(kv, x, y) == kv.sim[{x, y}]

\* kv_model.most_similar(term, topn): the topn other words of the vocabulary by
\* descending similarity.  The caller checks term is in the vocabulary (a
\* KeyError otherwise).
MostSimilar(kv, term, topn) ==
    LET others == SelectSeq(kv.words, LAMBDA w : w # term)
    IN  NLargest(topn, [i \in DOMAIN others |-> <<others[i], SimOf(kv, term, others[i])>>])

InVocab(kv, term) == \E i \in DOMAIN kv.words : kv.words[i] = term

\* The inner loop of expandQuery: val is the weight of the expanded term.
RECURSIVE AddNearest(_, _, _)
AddNearest(qv, top_nearest, val) ==
    IF top_nearest = <<>> THEN qv
    ELSE LET near_word == Head(top_nearest)[1]
             near_val  == Head(top_nearest)[2]
         IN  AddNearest(Put(qv, near_word,
                            Get(qv, near_word, 0) + ((near_val * val) \div 10)),
                        Tail(top_nearest), val)

\* The first loop of expandQuery, over the items of the snapshot temp_vec; qv is
\* the dictionary the caller passed in, which the loop writes to.
RECURSIVE ExpandTerms(_, _, _, _)
ExpandTerms(qv, temp_items, kv, topn) ==
    IF temp_items = <<>> THEN qv
    ELSE LET term == Head(temp_items)[1]
             val  == Head(temp_items)[2]
             next == IF InVocab(kv, term)
                     THEN AddNearest(qv, MostSimilar(kv, term, topn), val)
                     ELSE qv
         IN  ExpandTerms(next, Tail(temp_items), kv, topn)

\* The accumulation without the clamping loop.
ClampNone(qv) == qv

\* The second loop of expandQuery: negative weights become 0.
Clamp(qv) ==
    [i \in DOMAIN qv |-> IF qv[i][2] < 0 THEN <<qv[i][1], 0>> ELSE qv[i]]

\* expandQuery: the content of the dictionary query_vec when the call returns.
\* The function writes to the dictionary it was given (temp_vec, the copy, is
\* only iterated) and returns that same dictionary.
expandQuery(qv, kv, topn) == Clamp(ExpandTerms(qv, qv, kv, topn))

\* computeQueryWordScore: math.log raises ValueError for tf <= 0.  tf is in
\* tenths, so 1 + log10(tf / 10) is Log10(tf); the weight is in 1/10000.
computeQueryWordScore(term, tf, index, corpus_size) ==
    LET df  == index[term].df
        idf == Log10(corpus_size) - Log10(df)
    IN  IF tf <= 0 THEN [err |-> "ValueError", weight |-> 0]
        ELSE [err |-> "none", weight |-> Log10(tf) * idf]

\* computeDocWordScore: the loop over the posting list of term; scores in 1/1000000.
RECURSIVE ScoreDocs(_, _, _, _, _)
ScoreDocs(sc, doc_list, qscore, info, isTitle) ==
    IF doc_list = <<>> THEN [err |-> "none", scores |-> sc]
    ELSE LET doc  == Head(doc_list)[1]
             val  == Head(doc_list)[2]
             norm == IF isTitle THEN info[doc].title_norm ELSE info[doc].content_norm
         IN  IF val <= 0 THEN [err |-> "ValueError", scores |-> sc]
             ELSE IF norm = 0 THEN [err |-> "ZeroDivisionError", scores |-> sc]
             ELSE ScoreDocs(Put(sc, doc,
                                Get(sc, doc, 0) + qscore * ((LogTf(val) * 100) \div norm)),
                            Tail(doc_list), qscore, info, isTitle)

\* The weight of the query term left out of the document scores.
computeDocWordScoreUnweighted(sc, term, qscore, index, info, isTitle) ==
    ScoreDocs(sc, index[term].postings, 1, info, isTitle)

computeDocWordScore(sc, term, qscore, index, info, isTitle) ==
    ScoreDocs(sc, index[term].postings, qscore, info, isTitle)

\* Index elimination dropped: every document of doc_info gets a score entry.
ScoreStartAll(info) ==
    LET ids == CHOOSE q \in [1..Cardinality(DOMAIN info) -> DOMAIN info] :
                   \A i, j \in DOMAIN q : q[i] = q[j] => i = j
    IN  [i \in DOMAIN ids |-> <<ids[i], 0>>]

\* scores = {} at the head of evaluateDocScores.
ScoreStart(info) == <<>>

\* The loop of evaluateDocScores over the words of query_vec; query_norm is the
\* running sum of qscore ** 2 (in 1/100000000).
RECURSIVE EvalTerms(_, _, _, _, _, _, _)
EvalTerms(items, sc, query_norm, index, info, corpus_size, isTitle) ==
    IF items = <<>> THEN [err |-> "none", scores |-> sc, query_norm |-> query_norm]
    ELSE LET word == Head(items)[1]
             tf   == Head(items)[2]
         IN  IF word \notin DOMAIN index
             THEN EvalTerms(Tail(items), sc, query_norm, index, info,
                            corpus_size, isTitle)
             ELSE LET q == computeQueryWordScore(word, tf, index, corpus_size)
                      d == computeDocWordScore(sc, word, q.weight, index, info, isTitle)
                  IN  IF q.err # "none"
                      THEN [err |-> q.err, scores |-> sc, query_norm |-> query_norm]
                      ELSE IF d.err # "none"
                      THEN [err |-> d.err, scores |-> d.scores, query_norm |-> query_norm]
                      ELSE EvalTerms(Tail(items), d.scores,
                                     query_norm + q.weight * q.weight,
                                     index, info, corpus_size, isTitle)

\* The normalization at the end of evaluateDocScores (scores in 1/10000).
Normalize(sc, query_norm) ==
    IF query_norm > 0
    THEN [i \in DOMAIN sc |-> <<sc[i][1], (sc[i][2] * 100) \div query_norm>>]
    ELSE sc

\* evaluateDocScores.  query_vec is the caller's dictionary when the call ends
\* (expandQuery writes to it); err names an uncaught exception, in which case
\* no score map is returned.
evaluateDocScores(qv, kv, index, info, corpus_size, isTitle, expand) ==
    LET vec == IF expand THEN expandQuery(qv, kv, max_exp_no) ELSE qv
        r   == EvalTerms(vec, ScoreStart(info), 0, index, info, corpus_size, isTitle)
        qn  == Sqrt(r.query_norm)
    IN  [err |-> r.err,
         query_vec |-> vec,
         query_norm |-> qn,
         scores |-> IF r.err = "none" THEN Normalize(r.scores, qn) ELSE <<>>]

\* The keys of the result in an order other than set iteration gave it.
RECURSIVE PairsOf(_, _, _, _)
PairsOf(order, ds, ts, tw) ==
    IF order = <<>> THEN <<>>
    ELSE <<<<Head(order), Get(ds, Head(order), 0) * (10 - tw) + Get(ts, Head(order), 0) * tw>>>>
         \o PairsOf(Tail(order), ds, ts, tw)

\* The documents of both maps only.
mergeScoresCommon(ds, ts, tw, order) ==
    PairsOf(SelectSeq(order, LAMBDA k : HasKey(ds, k) /\ HasKey(ts, k)), ds, ts, tw)

\* mergeScores: order is the order in which set(doc_scores) | set(title_scores)
\* is iterated; title_weight in tenths, so the result is ten times finer than
\* the two maps.
mergeScores(ds, ts, tw, order) == PairsOf(order, ds, ts, tw)

\* The orders in which a set can be iterated.
Orders(S) ==
    { q \in [1..Cardinality(S) -> S] : \A i, j \in DOMAIN q : q[i] = q[j] => i = j }

\* ------------------------------------------------------------------- state
VARIABLES
    pc,              \* position of the program being run
    \* construct_index.py, and the pickled files test_queries.py loads
    docs,            \* the <doc> elements processed so far, in order
    inverted_index,  \* term -> [df, postings]
    title_index,     \* term -> [df, postings]
    doc_info,        \* doc id -> [name, content_norm, title_norm]
    is_zoned_index,  \* --zoned_index
    \* createChampionList
    posting_list, max_docs, champion_list,
    \* printTopKScores
    scores, K, printed,
    \* mergeScores
    title_weight, final_scores,
    \* test_queries.py
    kv_model,        \* the trimmed embeddings, or "None"
    score_title,     \* --score_title
    expand_query,    \* --expand_query
    query,           \* the processed words of the query
    query_vec,       \* the query vector dictionary of the main loop
    doc_scores, title_scores,
    query_norm,      \* the query_norm of the last evaluateDocScores call
    err              \* the uncaught exception that ended the program, or "none"

indexVars == <<docs, inverted_index, title_index, doc_info, is_zoned_index>>
championVars == <<posting_list, max_docs, champion_list>>
topKVars == <<scores, K, printed>>
mergeVars == <<title_weight, final_scores>>
sessionVars == <<kv_model, score_title, expand_query, query, query_vec,
                 doc_scores, title_scores, query_norm, err>>
vars == <<pc, indexVars, championVars, topKVars, mergeVars, sessionVars>>

IndexIdle ==
    /\ docs = <<>> /\ inverted_index = <<>> /\ title_index = <<>>
    /\ doc_info = <<>> /\ is_zoned_index = FALSE
ChampionIdle == posting_list = <<>> /\ max_docs = 0 /\ champion_list = <<>>
TopKIdle == scores = <<>> /\ K = 0 /\ printed = [kind |-> "none", rows |-> <<>>]
MergeIdle == title_weight = 0 /\ final_scores = <<>>
SessionIdle ==
    /\ kv_model = "None" /\ score_title = FALSE /\ expand_query = FALSE
    /\ query = <<>> /\ query_vec = <<>> /\ doc_scores = <<>> /\ title_scores = <<>>
    /\ query_norm = 0
    /\ err = "none"

\* ------------------------------------------- construct_index.py as a machine
IndexState ==
    [inverted_index |-> inverted_index, title_index |-> title_index,
     doc_info |-> doc_info]

InitIndex ==
    /\ pc = "build"
    /\ docs = <<>> /\ inverted_index = <<>> /\ title_index = <<>> /\ doc_info = <<>>
    /\ is_zoned_index \in BOOLEAN
    /\ ChampionIdle /\ TopKIdle /\ MergeIdle /\ SessionIdle

\* One round of the corpus loop of createIndexFromCorpus.
IndexDoc ==
    /\ pc = "build"
    /\ Len(docs) < MaxCorpus
    /\ \E id \in DocIds, text \in DocTexts, title \in DocTitles :
          LET doc == [id |-> id, title |-> title, text |-> text]
              st  == ProcessDoc(IndexState, doc, is_zoned_index)
          IN  /\ docs' = Append(docs, doc)
              /\ inverted_index' = st.inverted_index
              /\ title_index' = st.title_index
              /\ doc_info' = st.doc_info
    /\ UNCHANGED <<pc, is_zoned_index, championVars, topKVars, mergeVars, sessionVars>>

\* The champion lists of the zoned content index.
TrimIndex(index, zoned) ==
    IF zoned
    THEN [w \in DOMAIN index |->
             [df |-> index[w].df,
              postings |-> createChampionList(index[w].postings, champion_max_docs)]]
    ELSE index

\* The end of createIndexFromCorpus: the corpus loop is over.
FinishIndex ==
    /\ pc = "build"
    /\ pc' = "built"
    /\ inverted_index' = TrimIndex(inverted_index, is_zoned_index)
    /\ UNCHANGED <<docs, title_index, doc_info, is_zoned_index,
                   championVars, topKVars, mergeVars, sessionVars>>

NextIndex == IndexDoc \/ FinishIndex

SpecIndex == InitIndex /\ [][NextIndex]_vars

\* ------------------------------------------------ claims on the index build
DfIsCardinality(index) ==
    \A w \in DOMAIN index : index[w].df = Cardinality(Keys(index[w].postings))

\* C1: after any sequence of mergeDocToIndex calls from an empty index, before
\* the champion lists are made, the document frequency of every term equals
\* the number of distinct document ids of its posting list.
C1_DfEqualsPostings ==
    pc = "build" => DfIsCardinality(inverted_index) /\ DfIsCardinality(title_index)

DistinctIds(ds) == \A i, j \in DOMAIN ds : ds[i].id = ds[j].id => i = j

Permuted(ds, p) == [i \in DOMAIN ds |-> ds[p[i]]]

\* What an index denotes: the order of a posting list is not part of it.
IndexMap(index) ==
    [w \in DOMAIN index |->
        [df |-> index[w].df, postings |-> AsMap(index[w].postings)]]

SameIndexState(s, t) ==
    /\ IndexMap(s.inverted_index) = IndexMap(t.inverted_index)
    /\ IndexMap(s.title_index) = IndexMap(t.title_index)
    /\ s.doc_info = t.doc_info

OrderIrrelevant ==
    \A p \in Orders(DOMAIN docs) :
        SameIndexState(ProcessCorpus(EmptyIndexState, Permuted(docs, p), is_zoned_index),
                       IndexState)

\* C10 as stated: merging any collection of (document id, term frequencies)
\* inputs in any two orders gives the same index and the same normalization
\* factors.
C10_AnyCollectionOrderIrrelevant == pc = "build" => OrderIrrelevant

\* C10, amended: merging inputs whose document ids are pairwise distinct in any
\* two orders gives the same term -> (document frequency, postings) mapping and
\* the same normalization factors.
C10_DistinctIdsOrderIrrelevant ==
    (pc = "build" /\ DistinctIds(docs)) => OrderIrrelevant

\* Three documents with distinct ids that share a term with different
\* frequencies have been merged.
C10_Witness ==
    /\ pc = "build"
    /\ Len(docs) = 3
    /\ DistinctIds(docs)
    /\ "a" \in DOMAIN inverted_index
    /\ Len(inverted_index["a"].postings) = 3
    /\ \E i, j \in 1..3 :
          inverted_index["a"].postings[i][2] # inverted_index["a"].postings[j][2]

\* ----------------------------------------- createChampionList on any input
InitChampion ==
    /\ pc = "call"
    /\ posting_list \in DictsOver(DocIds, 1..MaxVal)
    /\ max_docs \in 0..MaxCap
    /\ champion_list = <<>>
    /\ IndexIdle /\ TopKIdle /\ MergeIdle /\ SessionIdle

CallChampionList ==
    /\ pc = "call"
    /\ pc' = "return"
    /\ champion_list' = createChampionList(posting_list, max_docs)
    /\ UNCHANGED <<posting_list, max_docs, indexVars, topKVars, mergeVars, sessionVars>>

NextChampion == CallChampionList

SpecChampion == InitChampion /\ [][NextChampion]_vars

\* C2: the champion list has at most max_docs entries, and every document in it
\* has a term frequency at least that of every document of the input posting
\* list left out of it.
C2_ChampionBound ==
    pc = "return" =>
        /\ Len(champion_list) <= max_docs
        /\ \A d \in Keys(champion_list) :
              \A e \in Keys(posting_list) \ Keys(champion_list) :
                  Get(posting_list, d, 0) >= Get(posting_list, e, 0)

\* A posting list longer than the cap was trimmed where two documents tie.
C2_Witness ==
    /\ pc = "return"
    /\ max_docs = 2
    /\ Len(posting_list) = 3
    /\ Len(champion_list) = 2
    /\ \E d \in Keys(champion_list) :
          \E e \in Keys(posting_list) \ Keys(champion_list) :
              Get(posting_list, d, 0) = Get(posting_list, e, 0)

\* C3: every (document, frequency) pair of the champion list is a pair of the
\* input posting list, and an input of at most max_docs entries comes back as
\* the same mapping.
C3_ChampionSubMapping ==
    pc = "return" =>
        /\ IsDict(champion_list)
        /\ \A i \in DOMAIN champion_list :
              \E j \in DOMAIN posting_list : posting_list[j] = champion_list[i]
        /\ Len(posting_list) <= max_docs => AsMap(champion_list) = AsMap(posting_list)

\* A posting list of exactly max_docs entries came back reordered, as the same
\* mapping.
C3_Witness ==
    /\ pc = "return"
    /\ Len(posting_list) = max_docs
    /\ max_docs >= 2
    /\ champion_list # posting_list
    /\ AsMap(champion_list) = AsMap(posting_list)

\* -------------------------------------------- printTopKScores on any input
InitTopK ==
    /\ pc = "call"
    /\ scores \in DictsOver(DocIds, 0..MaxVal)
    /\ K \in 0..MaxCap
    /\ printed = [kind |-> "none", rows |-> <<>>]
    /\ IndexIdle /\ ChampionIdle /\ MergeIdle /\ SessionIdle

CallPrintTopK ==
    /\ pc = "call"
    /\ pc' = "return"
    /\ printed' = PrintedRows(scores, K)
    /\ UNCHANGED <<scores, K, indexVars, championVars, mergeVars, sessionVars>>

NextTopK == CallPrintTopK

SpecTopK == InitTopK /\ [][NextTopK]_vars

Min(a, b) == IF a <= b THEN a ELSE b

\* C8: the top-K selection lists min(K, number of entries) distinct documents
\* with their scores, by descending score, each scoring at least as much as
\* every document not listed; an empty map gives no results.
C8_TopK ==
    pc = "return" =>
        LET rows == printed.rows
            chosen == { rows[i][1] : i \in DOMAIN rows }
        IN  /\ Len(rows) = Min(K, Len(scores))
            /\ \A i, j \in DOMAIN rows : rows[i][1] = rows[j][1] => i = j
            /\ \A i \in DOMAIN rows :
                  \E j \in DOMAIN scores : scores[j] = rows[i]
            /\ \A i, j \in DOMAIN rows : i < j => rows[i][2] >= rows[j][2]
            /\ \A i \in DOMAIN rows :
                  \A d \in Keys(scores) \ chosen : rows[i][2] >= Get(scores, d, 0)
            /\ scores = <<>> => printed.kind = "none"
            /\ printed.kind = "none" <=> rows = <<>>

\* Two of three documents were selected, the higher score listed first.
C8_Witness ==
    /\ pc = "return"
    /\ K = 2
    /\ Len(scores) = 3
    /\ Len(printed.rows) = 2
    /\ printed.rows[1][2] > printed.rows[2][2]
    /\ scores[1][2] < scores[3][2]

\* ------------------------------------------------ mergeScores on any input
TitleWeights == {0, 1, 5, 10}

DocOrder == <<"d1", "d2", "d3">>

\* The score maps over the documents, one per mapping (the order in which the
\* two maps were filled plays no part in mergeScores).
ScoreMaps ==
    { LET present == SelectSeq(DocOrder, LAMBDA d : f[d] >= 0)
      IN  [i \in DOMAIN present |-> <<present[i], f[present[i]]>>]
      : f \in [DocIds -> (-1)..MaxVal] }

InitMerge ==
    /\ pc = "call"
    /\ doc_scores \in ScoreMaps
    /\ title_scores \in ScoreMaps
    /\ title_weight \in TitleWeights
    /\ final_scores = <<>>
    /\ IndexIdle /\ ChampionIdle /\ TopKIdle
    /\ kv_model = "None" /\ score_title = FALSE /\ expand_query = FALSE
    /\ query = <<>> /\ query_vec = <<>> /\ query_norm = 0 /\ err = "none"

CallMergeScores ==
    /\ pc = "call"
    /\ pc' = "return"
    /\ \E order \in Orders(Keys(doc_scores) \cup Keys(title_scores)) :
          final_scores' = mergeScores(doc_scores, title_scores, title_weight, order)
    /\ UNCHANGED <<title_weight, indexVars, championVars, topKVars, sessionVars>>

NextMerge == CallMergeScores

SpecMerge == InitMerge /\ [][NextMerge]_vars

\* C9: the keys of the merged map are the union of the keys of the two maps, and
\* each value is content * (1 - title_weight) + title * title_weight with a
\* missing score taken as 0 (weights in tenths, so the value is in tenths of
\* the unit of the two maps).
C9_MergeScores ==
    pc = "return" =>
        /\ IsDict(final_scores)
        /\ Keys(final_scores) = Keys(doc_scores) \cup Keys(title_scores)
        /\ \A i \in DOMAIN final_scores :
              LET d == final_scores[i][1]
                  c == IF d \in Keys(doc_scores) THEN AsMap(doc_scores)[d] ELSE 0
                  t == IF d \in Keys(title_scores) THEN AsMap(title_scores)[d] ELSE 0
              IN  final_scores[i][2] = c * (10 - title_weight) + t * title_weight

\* Two maps that share one document and have one each of their own were merged.
C9_Witness ==
    /\ pc = "return"
    /\ title_weight = 1
    /\ Keys(doc_scores) = {"d1", "d2"}
    /\ Keys(title_scores) = {"d2", "d3"}
    /\ Len(final_scores) = 3
    /\ Get(final_scores, "d2", 0) = 9 * Get(doc_scores, "d2", 0) + Get(title_scores, "d2", 0)
    /\ Get(title_scores, "d3", 0) > 0

\* --------------------------------------------- test_queries.py as a machine
\* Similarities of the embeddings, in tenths.
Sims == {-5, 5}

TermOrder == <<"a", "b">>

\* The corpora of the query sessions: two documents with distinct ids.
SessionCorpora ==
    { << [id |-> "d1", title |-> n1, text |-> t1],
         [id |-> "d2", title |-> n2, text |-> t2] >>
      : <<n1, t1, n2, t2>> \in DocTitles \X DocTexts \X DocTitles \X DocTexts }

\* createIndexFromCorpus as a whole: the corpus loop, then the champion lists.
createIndexFromCorpus(ds, zoned) ==
    LET st == ProcessCorpus(EmptyIndexState, ds, zoned)
    IN  [inverted_index |-> TrimIndex(st.inverted_index, zoned),
         title_index |-> st.title_index,
         doc_info |-> st.doc_info]

\* trim_embeddings.py: a keyed-vector model over the words of the basic index
\* that the raw embeddings know, with one similarity per pair of its words.
KvModels(ds) ==
    LET vocabulary == DOMAIN createIndexFromCorpus(ds, FALSE).inverted_index
    IN  { [words |-> SelectSeq(TermOrder, LAMBDA w : w \in W), sim |-> sm]
          : <<W, sm>> \in
            UNION { {W} \X [ { {x, y} : x, y \in W } \ { {x} : x \in W } -> Sims ]
                    : W \in SUBSET vocabulary }
        }

Queries == UNION { [1..n -> QueryWords] : n \in 0..MaxQueryLen }

InitQuery ==
    /\ pc = "input"
    /\ score_title \in BOOLEAN
    /\ expand_query \in BOOLEAN
    /\ is_zoned_index = score_title
    /\ docs \in SessionCorpora
    /\ LET built == createIndexFromCorpus(docs, is_zoned_index)
       IN  /\ inverted_index = built.inverted_index
           /\ title_index = built.title_index
           /\ doc_info = built.doc_info
    /\ kv_model \in IF expand_query THEN KvModels(docs) ELSE {"None"}
    /\ query = <<>> /\ query_vec = <<>> /\ doc_scores = <<>> /\ title_scores = <<>>
    /\ query_norm = 0
    /\ err = "none"
    /\ ChampionIdle /\ TopKIdle /\ MergeIdle

corpus_size == Cardinality(DOMAIN doc_info)

\* Lines 230-236: a query is read, cleaned and turned into the query vector.
ReadQuery ==
    /\ pc = "input"
    /\ \E q \in Queries :
          /\ query' = q
          /\ query_vec' = constructQueryVector(q)
    /\ pc' = "content"
    /\ UNCHANGED <<indexVars, championVars, topKVars, mergeVars, kv_model,
                   score_title, expand_query, doc_scores, title_scores,
                   query_norm, err>>

\* Line 239: the documents are scored on their content.
EvalContent ==
    /\ pc = "content"
    /\ LET r == evaluateDocScores(query_vec, kv_model, inverted_index, doc_info,
                                  corpus_size, FALSE, expand_query)
       IN  /\ query_vec' = r.query_vec
           /\ err' = r.err
           /\ doc_scores' = r.scores
           /\ query_norm' = r.query_norm
           /\ pc' = IF r.err # "none" THEN "crashed"
                    ELSE IF score_title THEN "title" ELSE "print"
    /\ UNCHANGED <<indexVars, championVars, topKVars, mergeVars, kv_model,
                   score_title, expand_query, query, title_scores>>

\* Lines 240-242: the documents are scored on their titles and the two maps merged.
EvalTitle ==
    /\ pc = "title"
    /\ LET r == evaluateDocScores(query_vec, kv_model, title_index, doc_info,
                                  corpus_size, TRUE, FALSE)
       IN  /\ query_vec' = r.query_vec
           /\ err' = r.err
           /\ title_scores' = r.scores
           /\ query_norm' = r.query_norm
           /\ IF r.err # "none"
              THEN pc' = "crashed" /\ doc_scores' = doc_scores
              ELSE /\ pc' = "print"
                   /\ \E order \in Orders(Keys(doc_scores) \cup Keys(r.scores)) :
                         doc_scores' = mergeScores(doc_scores, r.scores,
                                                   session_title_weight, order)
    /\ UNCHANGED <<indexVars, championVars, topKVars, mergeVars, kv_model,
                   score_title, expand_query, query>>

\* Line 247: the top K documents are printed.
PrintResults ==
    /\ pc = "print"
    /\ printed' = PrintedRows(doc_scores, top_K)
    /\ pc' = "asked"
    /\ UNCHANGED <<indexVars, championVars, scores, K, mergeVars, sessionVars>>

\* Line 250, any answer but "n": the loop starts over.  The dictionaries of the
\* round that ended are rebound before they are read again; they are emptied here.
Continue ==
    /\ pc = "asked"
    /\ pc' = "input"
    /\ query' = <<>> /\ query_vec' = <<>> /\ doc_scores' = <<>> /\ title_scores' = <<>>
    /\ query_norm' = 0
    /\ printed' = [kind |-> "none", rows |-> <<>>]
    /\ UNCHANGED <<indexVars, championVars, scores, K, mergeVars, kv_model,
                   score_title, expand_query, err>>

\* Line 250, the answer "n": the program ends.
Quit ==
    /\ pc = "asked"
    /\ pc' = "exit"
    /\ UNCHANGED <<indexVars, championVars, topKVars, mergeVars, sessionVars>>

NextQuery == ReadQuery \/ EvalContent \/ EvalTitle \/ PrintResults \/ Continue \/ Quit

SpecQuery == InitQuery /\ [][NextQuery]_vars

\* ------------------------------------------------ claims on query evaluation
\* The content evaluation of the round has returned a score map.
ContentScored == pc = "title" \/ (pc \in {"print", "asked"} /\ ~score_title)

\* The title evaluation of the round has returned a score map.
TitleScored == pc \in {"print", "asked"} /\ score_title

\* The content evaluation of the round has run, to its end or to an exception.
ContentEvaluated == pc \in {"title", "print", "asked", "crashed"}

\* The documents of the posting lists of the words of qv.
Touched(qv, index) ==
    UNION { Keys(index[w].postings) : w \in Keys(qv) \cap DOMAIN index }

\* C4: every document of the score map evaluateDocScores returns is in the
\* posting list of a term of the query vector it scored (with expand_query on,
\* that is the dictionary of the caller as the expansion left it); a document
\* that shares no term with it is not in the score map.
C4_IndexElimination ==
    /\ ContentScored => Keys(doc_scores) \subseteq Touched(query_vec, inverted_index)
    /\ TitleScored => Keys(title_scores) \subseteq Touched(query_vec, title_index)
    /\ (ContentScored /\ ~expand_query) =>
           Keys(doc_scores) \subseteq Touched(constructQueryVector(query), inverted_index)

\* A query was scored that matches one of the two documents and not the other.
C4_Witness ==
    /\ ContentScored
    /\ query # <<>>
    /\ Keys(doc_scores) = {"d1"}
    /\ \E w \in DOMAIN inverted_index : "d2" \in Keys(inverted_index[w].postings)

\* C5: in any query evaluation, with or without expansion, every value handed
\* to a logarithm is > 0: the weight of every query term found in the index
\* (the tf of computeQueryWordScore), and every frequency of a posting list
\* (the val of computeDocWordScore, the tf of mergeDocToIndex).
C5_LogArgumentsPositive ==
    /\ err # "ValueError"
    /\ ContentEvaluated =>
           \A i \in DOMAIN query_vec :
               query_vec[i][1] \in DOMAIN inverted_index => query_vec[i][2] > 0
    /\ \A w \in DOMAIN inverted_index :
           \A i \in DOMAIN inverted_index[w].postings :
               inverted_index[w].postings[i][2] > 0
    /\ \A w \in DOMAIN title_index :
           \A i \in DOMAIN title_index[w].postings :
               title_index[w].postings[i][2] > 0

\* C6: after evaluateDocScores with expand_query on, the query vector of the
\* caller has the terms and weights it had before the call.
C6_CallerVectorUnchanged ==
    ContentEvaluated => AsMap(query_vec) = AsMap(constructQueryVector(query))

\* The weights the first loop of expandQuery leaves, before the clamp.
Accumulated ==
    ExpandTerms(constructQueryVector(query), constructQueryVector(query),
                kv_model, max_exp_no)

\* C7: every weight of the vector expandQuery returns is >= 0, and every entry
\* whose accumulated weight was negative is exactly 0.
C7_ExpansionClamp ==
    (ContentEvaluated /\ expand_query) =>
        /\ \A i \in DOMAIN query_vec : query_vec[i][2] >= 0
        /\ Keys(query_vec) = Keys(Accumulated)
        /\ \A i \in DOMAIN Accumulated :
              Accumulated[i][2] < 0 => Get(query_vec, Accumulated[i][1], 1) = 0

\* An expansion term with a negative similarity was added and clamped.
C7_Witness ==
    /\ ContentEvaluated /\ expand_query
    /\ \E i \in DOMAIN Accumulated :
          /\ Accumulated[i][2] < 0
          /\ Accumulated[i][1] \notin { query[j] : j \in DOMAIN query }
          /\ Get(query_vec, Accumulated[i][1], 1) = 0

\* The score map the last evaluateDocScores call of the round returned.
LastScores == IF TitleScored THEN title_scores ELSE doc_scores

\* The index the last evaluateDocScores call of the round scored against.
LastIndex == IF TitleScored THEN title_index ELSE inverted_index

\* C11 as stated: whenever query_norm is 0 at the end of the term loop, no
\* query term matched the index and the returned score map is empty.
C11_ZeroNormEmptyScores ==
    ((ContentScored \/ TitleScored) /\ query_norm = 0) =>
        /\ Keys(query_vec) \cap DOMAIN LastIndex = {}
        /\ LastScores = <<>>

\* C11, amended: whenever query_norm is 0 at the end of the term loop, every
\* score of the returned map is 0; if moreover no query term matched the index,
\* the returned map is empty.
C11_ZeroNormZeroScores ==
    ((ContentScored \/ TitleScored) /\ query_norm = 0) =>
        /\ \A i \in DOMAIN LastScores : LastScores[i][2] = 0
        /\ Keys(query_vec) \cap DOMAIN LastIndex = {} => LastScores = <<>>

\* A query whose only matching term is in every document (idf = 0) was scored:
\* query_norm is 0 and both documents are in the score map.
C11_Witness ==
    /\ ContentScored
    /\ query_norm = 0
    /\ Keys(doc_scores) = {"d1", "d2"}
    /\ Keys(query_vec) \cap DOMAIN inverted_index # {}

\* What evaluateDocScores returns for the title zone on the raw query vector.
RawTitleScores ==
    evaluateDocScores(constructQueryVector(query), kv_model, title_index, doc_info,
                      corpus_size, TRUE, FALSE).scores

\* C12: with title scoring and query expansion both on, the title scores of a
\* query are those of the original, unexpanded query vector: the title
\* evaluation sees no term or weight the content evaluation's expansion added.
C12_TitleScoresFromRawQuery ==
    (TitleScored /\ expand_query) =>
        /\ AsMap(title_scores) = AsMap(RawTitleScores)
        /\ Keys(title_scores) \subseteq Touched(constructQueryVector(query), title_index)

====
